---------------------------- MODULE Spec2Model ----------------------------
(***************************************************************************)
(* Model of escripts (src/escripts/__main__.py): a command dispatcher that *)
(* loads ~/.escripts/config.yml, resolves sys.argv[1] to a script or an    *)
(* alias definition, binds the remaining tokens with argparse and spawns   *)
(* one child process.  One run of the process is one behaviour: the        *)
(* environment (workspace directory, configuration document, command line) *)
(* is chosen in Init and the actions are the steps of main().              *)
(***************************************************************************)
EXTENDS Integers, Sequences, FiniteSets, TLC

VARIABLES
    namespace,      \* what ~/.escripts is on disk: "missing", "file" or "dir"
    config_path,    \* what <namespace>/config.yml is: "missing", "dir" or "file"
    document,       \* what yaml.safe_load gives for the file's text
    sys_argv,       \* sys.argv[1:], the arguments after the program name
    pc,             \* the frame main() is in
    data,           \* Escripts.data
    type_command,   \* process_command's type_command
    details,        \* process_command's details (data.get(name))
    command_args,   \* vars(parsed_args), in insertion order
    trace,          \* the methods entered so far, in order
    out,            \* what print() wrote, in order
    log,            \* what logging.error() wrote, in order
    spawned,        \* the subprocess.run() calls made, in order
    child_status,   \* the return code of the child, -1 while there is none
    exit_code       \* the exit code of the process, -1 while it runs

vars == <<namespace, config_path, document, sys_argv, pc, data, type_command,
          details, command_args, trace, out, log, spawned, child_status,
          exit_code>>

(***************************************************************************)
(* Bounds of the model.                                                    *)
(***************************************************************************)
\* the longest list of tokens after the command name
MaxArgs == 2

(***************************************************************************)
(* Python values.  A value carries its type; n is the number of an int or  *)
(* of a float (5 stands for 5.0), s the text of a str.                     *)
(***************************************************************************)
PyStrValue(s)   == [ty |-> "str",   n |-> 0, s |-> s]
PyIntValue(n)   == [ty |-> "int",   n |-> n, s |-> ""]
PyFloatValue(n) == [ty |-> "float", n |-> n, s |-> ""]
PyNone          == [ty |-> "None",  n |-> 0, s |-> ""]

\* the decimal literals among the tokens, with the number int() reads
Literals == {"5"}
LiteralValue(s) == CASE s = "5" -> 5
                     [] OTHER   -> 0
Digits(n) == CASE n = 0 -> "0"
               [] n = 1 -> "1"
               [] n = 2 -> "2"
               [] n = 5 -> "5"
               [] OTHER -> "?"

\* str(value), as run_script's str(value) and str.format's {name} give it
PyStr(v) == CASE v.ty = "str"   -> v.s
              [] v.ty = "int"   -> Digits(v.n)
              [] v.ty = "float" -> Digits(v.n) \o ".0"
              [] OTHER          -> "None"

\* argparse's type conversion: str, int or float applied to an argument string
Coerce(arg_type, s) ==
    CASE arg_type = "int"   -> IF s \in Literals
                               THEN [ok |-> TRUE,  value |-> PyIntValue(LiteralValue(s))]
                               ELSE [ok |-> FALSE, value |-> PyNone]
      [] arg_type = "float" -> IF s \in Literals
                               THEN [ok |-> TRUE,  value |-> PyFloatValue(LiteralValue(s))]
                               ELSE [ok |-> FALSE, value |-> PyNone]
      [] OTHER              -> [ok |-> TRUE, value |-> PyStrValue(s)]

(***************************************************************************)
(* The configuration documents of the model.                               *)
(***************************************************************************)
\* one entry of an `args` mapping
Param(name, type, has_default, default) ==
    [name |-> name, type |-> type, has_default |-> has_default, default |-> default]

\* the `args` mappings, each in document order
Schemas ==
    { << >>,
      << Param("count", "int", FALSE, PyNone) >>,
      << Param("count", "float", FALSE, PyNone) >>,
      << Param("msg", "str", FALSE, PyNone) >>,
      << Param("msg", "str", TRUE, PyStrValue("hi")),
         Param("count", "int", TRUE, PyIntValue(1)) >>,
      << Param("count", "int", TRUE, PyStrValue("abc")) >> }

\* the entries of the workspace directory a script path can name
PathKind(p) == CASE p = "run.py"  -> "file"
                 [] p = "lib"     -> "dir"
                 [] OTHER         -> "missing"

NoPath == "<none>"
ScriptPaths == {NoPath, "run.py", "gone.py", "lib"}

\* a command template is the list of its literal parts and {name} placeholders
Lit(s) == [kind |-> "lit", text |-> s]
Ph(s)  == [kind |-> "ph",  text |-> s]
NoCommand == << >>
Templates == { NoCommand,
               << Lit("echo "), Ph("msg") >>,
               << Lit("run "), Ph("count"), Lit(" "), Ph("msg") >> }

ScriptDefs == { [path |-> p, command |-> NoCommand, args |-> a] :
                    p \in ScriptPaths, a \in Schemas }
AliasDefs  == { [path |-> NoPath, command |-> c, args |-> a] :
                    c \in Templates, a \in Schemas }
NoDetails  == [path |-> NoPath, command |-> NoCommand, args |-> << >>]

\* the command names a section may define
Names == {"a"}

\* a section of the document: absent, present with no value (None), or a mapping
Section(kind, entries) == [kind |-> kind, entries |-> entries]
Sections(defs) ==
    { Section("absent", << >>), Section("None", << >>), Section("mapping", << >>) }
    \cup { Section("mapping", << [name |-> n, def |-> d] >>) : n \in Names, d \in defs }

Doc(tag, scripts, aliases) == [tag |-> tag, scripts |-> scripts, aliases |-> aliases]
YAMLError == Doc("YAMLError", Section("absent", << >>), Section("absent", << >>))
NoneDoc   == Doc("None", Section("absent", << >>), Section("absent", << >>))
Mappings  == { Doc("mapping", s, a) : s \in Sections(ScriptDefs), a \in Sections(AliasDefs) }
NoData    == Doc("unset", Section("absent", << >>), Section("absent", << >>))

(***************************************************************************)
(* The command lines of the model.                                         *)
(***************************************************************************)
Commands == {"--list", "a", "zzz"}
Tokens   == {"--help", "--count", "--msg", "5", "abc"}
TokenSeqs == UNION { [1..k -> Tokens] : k \in 0..MaxArgs }
ArgvLines == { << >> } \cup { <<c>> \o t : c \in Commands, t \in TokenSeqs }

\* the states of the workspace: the document is read only from a regular file
Workspaces ==
    { <<"missing", "missing", NoneDoc>>, <<"file", "missing", NoneDoc>>,
      <<"dir", "missing", NoneDoc>>, <<"dir", "dir", NoneDoc>>,
      <<"dir", "file", YAMLError>>, <<"dir", "file", NoneDoc>> }
    \cup { <<"dir", "file", d>> : d \in Mappings }

Init ==
    /\ \E w \in Workspaces :
          /\ namespace = w[1]
          /\ config_path = w[2]
          /\ document = w[3]
    /\ sys_argv \in ArgvLines
    /\ pc = "main"
    /\ data = NoData
    /\ type_command = ""
    /\ details = NoDetails
    /\ command_args = << >>
    /\ trace = << >>
    /\ out = << >>
    /\ log = << >>
    /\ spawned = << >>
    /\ child_status = -1
    /\ exit_code = -1

\* one logging.error() record: the frame that logs, and the error it reports
LogRecord(at, err, arg) == [at |-> at, err |-> err, arg |-> arg]

(***************************************************************************)
(* Escripts._load_config: the error it raises, or "ok".                    *)
(***************************************************************************)
\* a loader that tests `if not config`, which an empty mapping fails too
_load_config_falsy(ns, cfg, doc) ==
    CASE ns = "missing"         -> "FileNotFoundError"
      [] ns # "dir"             -> "NotADirectoryError"
      [] cfg = "missing"        -> "FileNotFoundError"
      [] cfg # "file"           -> "ValueError: not a file"
      [] doc.tag = "YAMLError"  -> "ValueError: parse"
      [] doc.tag = "None"       -> "ValueError: empty"
      [] doc.scripts.kind = "absent" /\ doc.aliases.kind = "absent"
                                -> "ValueError: empty"
      [] OTHER                  -> "ok"
_load_config(ns, cfg, doc) ==
    CASE ns = "missing"         -> "FileNotFoundError"
      [] ns # "dir"             -> "NotADirectoryError"
      [] cfg = "missing"        -> "FileNotFoundError"
      [] cfg # "file"           -> "ValueError: not a file"
      [] doc.tag = "YAMLError"  -> "ValueError: parse"
      [] doc.tag = "None"       -> "ValueError: empty"
      [] OTHER                  -> "ok"

\* main's `except Exception`: log the error, sys.exit(1)
MainExcept(err) ==
    /\ log' = Append(log, LogRecord("main", err, ""))
    /\ exit_code' = 1
    /\ pc' = "exit"

\* main: Escripts() runs __init__, which loads the configuration
Construct ==
    /\ pc = "main"
    /\ trace' = Append(trace, "_load_config")
    /\ LET r == _load_config(namespace, config_path, document) IN
        IF r = "ok"
        THEN /\ data' = document
             /\ pc' = "run"
             /\ UNCHANGED <<log, exit_code>>
        ELSE /\ MainExcept(r)
             /\ UNCHANGED data
    /\ UNCHANGED <<namespace, config_path, document, sys_argv, type_command,
                   details, command_args, out, spawned, child_status>>

\* main returns after es.run() returned: the interpreter exits with code 0
Return ==
    /\ exit_code' = 0
    /\ pc' = "exit"

(***************************************************************************)
(* Escripts.run                                                            *)
(***************************************************************************)
\* `name in mapping` and mapping[name] on a section's entries
Contains(entries, name) == \E i \in 1..Len(entries) : entries[i].name = name
Get(entries, name) ==
    entries[CHOOSE i \in 1..Len(entries) : entries[i].name = name].def

\* the if/elif chain of run: self.data.get(section, {}) is {} for an absent
\* section and None for a section without a value; `command in None` raises
ResolveAliasesFirst(d, command) ==
    IF command = "--list" THEN "command_list"
    ELSE IF d.aliases.kind = "None" THEN "TypeError"
    ELSE IF Contains(d.aliases.entries, command) THEN "aliases"
    ELSE IF d.scripts.kind = "None" THEN "TypeError"
    ELSE IF Contains(d.scripts.entries, command) THEN "scripts"
    ELSE "unknown"
Resolve(d, command) ==
    IF command = "--list" THEN "command_list"
    ELSE IF d.scripts.kind = "None" THEN "TypeError"
    ELSE IF Contains(d.scripts.entries, command) THEN "scripts"
    ELSE IF d.aliases.kind = "None" THEN "TypeError"
    ELSE IF Contains(d.aliases.entries, command) THEN "aliases"
    ELSE "unknown"

\* command_list: a section that is empty, absent or None prints the empty marker
ListSection(section) ==
    IF Len(section.entries) = 0
    THEN << "\tempty" >>
    ELSE [i \in 1..Len(section.entries) |-> section.entries[i].name]
command_list(d) ==
    << "Scripts:" >> \o ListSection(d.scripts) \o << "Aliases:" >> \o ListSection(d.aliases)

\* the guard of run's first statement: len(sys.argv) < 2
NoArgumentsNever(args) == FALSE
NoArguments(args) == Len(args) < 1

Run ==
    /\ pc = "run"
    /\ trace' = Append(trace, "run")
    /\ IF NoArguments(sys_argv)
       THEN /\ out' = Append(out, "usage")
            /\ Return
            /\ UNCHANGED <<log, type_command>>
       ELSE IF Len(sys_argv) < 1
       THEN \* command = sys.argv[1] on an argv that has no such element
            /\ MainExcept("IndexError")
            /\ UNCHANGED <<out, type_command>>
       ELSE LET r == Resolve(data, sys_argv[1]) IN
            CASE r = "command_list" ->
                    /\ out' = out \o command_list(data)
                    /\ Return
                    /\ UNCHANGED <<log, type_command>>
              [] r = "unknown" ->
                    /\ out' = Append(out, "unknown command")
                    /\ Return
                    /\ UNCHANGED <<log, type_command>>
              [] r = "TypeError" ->
                    /\ MainExcept("TypeError")
                    /\ UNCHANGED <<out, type_command>>
              [] OTHER ->
                    /\ type_command' = r
                    /\ pc' = "process_command"
                    /\ UNCHANGED <<out, log, exit_code>>
    /\ UNCHANGED <<namespace, config_path, document, sys_argv, data, details,
                   command_args, spawned, child_status>>

(***************************************************************************)
(* Escripts.process_command                                                *)
(***************************************************************************)
\* the mapping run hands to process_command as `data`
SectionOf(d, type) == IF type = "scripts" THEN d.scripts ELSE d.aliases

\* "--help" in argv
HelpRequestedFirstOnly(argv) == Len(argv) >= 1 /\ argv[1] = "--help"
HelpRequested(argv) == \E i \in 1..Len(argv) : argv[i] = "--help"

\* print_help: the command line, the description line, then one line per argument
print_help(name, args) ==
    << "Command: " \o name, "Description:" >>
    \o (IF Len(args) = 0 THEN << >> ELSE << "Arguments:" >>)
    \o [i \in 1..Len(args) |-> "--" \o args[i].name]

\* argparse: a token that starts with the prefix character is an option string
IsOptionString(tok) == tok \in {"--help", "--count", "--msg"}
\* the parser.add_argument("--<name>") actions that `tok` names
OptionIndex(schema, tok) == { k \in 1..Len(schema) : ("--" \o schema[k].name) = tok }

ParseFailure == [ok |-> FALSE, args |-> << >>]

\* the namespace before any token is read: every action's default
Defaults(schema) ==
    [k \in 1..Len(schema) |-> [seen |-> FALSE, value |-> schema[k].default]]

\* argparse's consume loop over the tokens from position i: a known option takes
\* the next token as its value (which must not be an option string) and converts
\* it; every other token goes to the extras that parse_known_args returns
RECURSIVE Consume(_, _, _, _)
Consume(schema, tokens, i, ns) ==
    IF i > Len(tokens) THEN [ok |-> TRUE, ns |-> ns]
    ELSE IF OptionIndex(schema, tokens[i]) = {}
         THEN Consume(schema, tokens, i + 1, ns)
    ELSE IF i + 1 > Len(tokens) \/ IsOptionString(tokens[i + 1])
         THEN [ok |-> FALSE, ns |-> ns]
    ELSE LET k == CHOOSE k \in OptionIndex(schema, tokens[i]) : TRUE
             c == Coerce(schema[k].type, tokens[i + 1])
         IN  IF ~c.ok THEN [ok |-> FALSE, ns |-> ns]
             ELSE Consume(schema, tokens, i + 2,
                          [ns EXCEPT ![k] = [seen |-> TRUE, value |-> c.value]])

\* an action the tokens did not name: required is an error, a str default is
\* converted with the action's type, any other default is kept as it is
Unseen(param) ==
    IF ~param.has_default THEN [ok |-> FALSE, value |-> PyNone]
    ELSE IF param.default.ty = "str" THEN Coerce(param.type, param.default.s)
    ELSE [ok |-> TRUE, value |-> param.default]

\* a parser that takes every option as optional (a missing one binds None)
ParseKnownArgsLenient(schema, tokens) ==
    LET c == Consume(schema, tokens, 1, Defaults(schema)) IN
    IF ~c.ok THEN ParseFailure
    ELSE [ok |-> TRUE,
          args |-> [k \in 1..Len(schema) |->
                      [name |-> schema[k].name, value |-> c.ns[k].value]]]

\* parser.parse_known_args(argv) for the parser built from `schema`:
\* ok = FALSE is parser.error(), which raises SystemExit(2)
ParseKnownArgs(schema, tokens) ==
    LET c == Consume(schema, tokens, 1, Defaults(schema))
        final(k) == IF c.ns[k].seen THEN [ok |-> TRUE, value |-> c.ns[k].value]
                    ELSE Unseen(schema[k])
    IN  IF ~c.ok \/ \E k \in 1..Len(schema) : ~final(k).ok
        THEN ParseFailure
        ELSE [ok |-> TRUE,
              args |-> [k \in 1..Len(schema) |->
                          [name |-> schema[k].name, value |-> final(k).value]]]

\* process_command's second `except Exception`: log the error and return; run
\* and main return after it
ProcessCommandReraise(pending, err, arg) ==
    /\ log' = pending \o << LogRecord("process_command", err, arg),
                            LogRecord("main", err, arg) >>
    /\ exit_code' = 1
    /\ pc' = "exit"
ProcessCommandExcept(pending, err, arg) ==
    /\ log' = Append(pending, LogRecord("process_command", err, arg))
    /\ Return

\* parser.error(): SystemExit(2) is no Exception, so neither process_command's
\* `except Exception` nor main's catches it, and nothing is logged
SystemExit ==
    /\ exit_code' = 2
    /\ pc' = "exit"

ProcessCommand ==
    /\ pc = "process_command"
    /\ LET name == sys_argv[1]
           argv == Tail(sys_argv)
           d    == Get(SectionOf(data, type_command).entries, name)
       IN  /\ details' = d
           /\ IF HelpRequested(argv)
              THEN /\ trace' = trace \o << "process_command", "print_help" >>
                   /\ out' = out \o print_help(name, d.args)
                   /\ Return
                   /\ UNCHANGED command_args
              ELSE LET r == ParseKnownArgs(d.args, argv) IN
                   /\ trace' = trace \o << "process_command", "parse_known_args" >>
                   /\ UNCHANGED out
                   /\ IF r.ok
                      THEN /\ command_args' = r.args
                           /\ pc' = IF type_command = "scripts"
                                    THEN "run_script" ELSE "run_alias"
                           /\ UNCHANGED exit_code
                      ELSE /\ SystemExit
                           /\ UNCHANGED command_args
    /\ UNCHANGED <<namespace, config_path, document, sys_argv, data, type_command,
                   log, spawned, child_status>>

(***************************************************************************)
(* Escripts.run_script                                                     *)
(***************************************************************************)
\* the checks of run_script before the interpreter is started: the error
\* raised, or "ok"
ValidateScriptNoChecks(d) == "ok"
ValidateScript(d) ==
    CASE d.path = NoPath              -> "ValueError: no path"
      [] PathKind(d.path) = "missing" -> "FileNotFoundError"
      [] PathKind(d.path) # "file"    -> "ValueError: not a file"
      [] OTHER                        -> "ok"

\* cmd.extend([f"--{key}", str(value)]) for every bound argument, in order
RECURSIVE ArgPairs(_)
ArgPairs(args) ==
    IF args = << >> THEN << >>
    ELSE << "--" \o Head(args).name, PyStr(Head(args).value) >> \o ArgPairs(Tail(args))

\* one subprocess.run() call
Subprocess(shell, cmd) == [shell |-> shell, cmd |-> cmd]

RunScript ==
    /\ pc = "run_script"
    /\ trace' = Append(trace, "run_script")
    /\ LET r == ValidateScript(details) IN
       IF r # "ok"
       THEN /\ ProcessCommandExcept(log, r, "")
            /\ UNCHANGED spawned
       ELSE /\ spawned' = Append(spawned,
                    Subprocess(FALSE, << "python", details.path >> \o ArgPairs(command_args)))
            /\ pc' = "wait_script"
            /\ UNCHANGED <<log, exit_code>>
    /\ UNCHANGED <<namespace, config_path, document, sys_argv, data, type_command,
                   details, command_args, out, child_status>>

\* the return codes a child process may end with
ChildStatuses == {0, 1, 2}

\* subprocess.run(check=True) returns: a non-zero status raises
\* CalledProcessError, which the `except` of the caller logs and raises again
\* into process_command
ChildExit(at) ==
    \E status \in ChildStatuses :
        /\ child_status' = status
        /\ IF status = 0
           THEN /\ Return
                /\ UNCHANGED log
           ELSE ProcessCommandExcept(
                    Append(log, LogRecord(at, "CalledProcessError", Digits(status))),
                    "CalledProcessError", Digits(status))
        /\ UNCHANGED <<namespace, config_path, document, sys_argv, data, type_command,
                       details, command_args, trace, out, spawned>>

ScriptExit ==
    /\ pc = "wait_script"
    /\ ChildExit("run_script")

(***************************************************************************)
(* Escripts.run_alias                                                      *)
(***************************************************************************)
\* `name in args` and args[name] on the bound arguments
Bound(args, name) == \E i \in 1..Len(args) : args[i].name = name
ValueOf(args, name) == args[CHOOSE i \in 1..Len(args) : args[i].name = name].value

FormatDone(text) == [ok |-> TRUE, text |-> text, key |-> ""]
FormatKeyError(key) == [ok |-> FALSE, text |-> "", key |-> key]

\* a formatter that reports the last placeholder without a value
RECURSIVE FormatLastKey(_, _)
FormatLastKey(template, args) ==
    IF template = << >> THEN FormatDone("")
    ELSE LET head == Head(template)
             rest == FormatLastKey(Tail(template), args)
         IN  IF ~rest.ok THEN rest
             ELSE IF head.kind = "ph" /\ ~Bound(args, head.text)
                  THEN FormatKeyError(head.text)
             ELSE FormatDone((IF head.kind = "ph" THEN PyStr(ValueOf(args, head.text))
                              ELSE head.text) \o rest.text)

\* command_template.format(**args): the template is read left to right, a
\* placeholder without a value raises KeyError(name)
RECURSIVE Format(_, _)
Format(template, args) ==
    IF template = << >> THEN FormatDone("")
    ELSE LET head == Head(template) IN
         IF head.kind = "ph" /\ ~Bound(args, head.text)
         THEN FormatKeyError(head.text)
         ELSE LET rest == Format(Tail(template), args) IN
              IF ~rest.ok THEN rest
              ELSE FormatDone((IF head.kind = "ph" THEN PyStr(ValueOf(args, head.text))
                               ELSE head.text) \o rest.text)

RunAlias ==
    /\ pc = "run_alias"
    /\ trace' = Append(trace, "run_alias")
    /\ IF details.command = NoCommand
       THEN /\ ProcessCommandExcept(log, "ValueError: no command", "")
            /\ UNCHANGED spawned
       ELSE LET f == Format(details.command, command_args) IN
            IF ~f.ok
            THEN /\ ProcessCommandExcept(log, "ValueError: missing argument", f.key)
                 /\ UNCHANGED spawned
            ELSE /\ spawned' = Append(spawned, Subprocess(TRUE, << f.text >>))
                 /\ pc' = "wait_alias"
                 /\ UNCHANGED <<log, exit_code>>
    /\ UNCHANGED <<namespace, config_path, document, sys_argv, data, type_command,
                   details, command_args, out, child_status>>

AliasExit ==
    /\ pc = "wait_alias"
    /\ ChildExit("run_alias")

Next ==
    \/ Construct
    \/ Run
    \/ ProcessCommand
    \/ RunScript
    \/ ScriptExit
    \/ RunAlias
    \/ AliasExit

Spec == Init /\ [][Next]_vars

(***************************************************************************)
(* Vocabulary of the properties.                                           *)
(***************************************************************************)
Range(seq) == { seq[i] : i \in 1..Len(seq) }
Keys(section) == { section.entries[i].name : i \in 1..Len(section.entries) }

\* the definition a section gives a name
DefinitionIn(section, name) ==
    (CHOOSE e \in Range(section.entries) : e.name = name).def

\* the workspace holds a configuration that loads: a directory with a regular
\* config.yml whose text parses to some content
Loadable ==
    /\ namespace = "dir"
    /\ config_path = "file"
    /\ document.tag = "mapping"

Exited == pc = "exit"
CommandGiven == Len(sys_argv) >= 1
TokensGiven == IF CommandGiven THEN Tail(sys_argv) ELSE << >>
HelpGiven == "--help" \in Range(TokensGiven)
NoSubprocess == spawned = << >>
ExecutorReached == "run_script" \in Range(trace) \/ "run_alias" \in Range(trace)

(***************************************************************************)
(* C1                                                                      *)
(***************************************************************************)
InBothSections ==
    /\ Loadable
    /\ CommandGiven
    /\ sys_argv[1] \in Keys(document.scripts) \cap Keys(document.aliases)

\* C1: a command name that is a key of both `scripts` and `aliases` is
\* dispatched to process_command with type 'scripts' and the scripts
\* definition; run_alias is never reached and no shell is started in that run.
C1_ScriptsTakePriority ==
    (InBothSections /\ pc \notin {"main", "run"}) =>
        /\ type_command = "scripts"
        /\ "run_alias" \notin Range(trace)
        /\ \A i \in 1..Len(spawned) : ~spawned[i].shell
        /\ "process_command" \in Range(trace) =>
               details = DefinitionIn(document.scripts, sys_argv[1])

C1_Witness ==
    /\ InBothSections
    /\ Exited
    /\ Len(spawned) = 1
    /\ DefinitionIn(document.aliases, sys_argv[1]).command # NoCommand

(***************************************************************************)
(* C2                                                                      *)
(***************************************************************************)
\* C2 as stated: with no argument the process prints the usage text and ends
\* with exit code 0, whatever the workspace and the configuration file are.
C2_UsageWhateverTheWorkspace ==
    (sys_argv = << >> /\ Exited) => (exit_code = 0 /\ out = << "usage" >>)

\* C2 as amended: with no argument the process prints the usage text and ends
\* with exit code 0 when the configuration loads; when loading fails it ends
\* with exit code 1 and prints no usage text.
C2_UsageWhenConfigLoads ==
    (sys_argv = << >> /\ Exited) =>
        /\ Loadable => (exit_code = 0 /\ out = << "usage" >> /\ log = << >>)
        /\ ~Loadable => (exit_code = 1 /\ out = << >> /\ Len(log) = 1)
        /\ NoSubprocess

C2_Witness ==
    /\ sys_argv = << >>
    /\ Exited
    /\ Loadable
    /\ out = << "usage" >>

(***************************************************************************)
(* C3                                                                      *)
(***************************************************************************)
ChildFailed == child_status > 0
ChildFailureLogged == \E i \in 1..Len(log) : log[i].err = "CalledProcessError"

\* C3 as stated: when the child ends with a non-zero status the failure is
\* logged and the dispatcher ends with that same non-zero status.
C3_ChildStatusIsExitCode ==
    (Exited /\ ChildFailed) => (ChildFailureLogged /\ exit_code = child_status)

\* C3 as amended: when the child ends with a non-zero status the failure is
\* logged by run_script/run_alias, raised into process_command, caught and
\* logged there, and the dispatcher ends with exit code 0.
C3_ChildFailureCaught ==
    (Exited /\ ChildFailed) =>
        LET caller == IF type_command = "scripts" THEN "run_script" ELSE "run_alias" IN
        /\ Len(log) = 2
        /\ log[1] = [at |-> caller, err |-> "CalledProcessError",
                     arg |-> Digits(child_status)]
        /\ log[2] = [at |-> "process_command", err |-> "CalledProcessError",
                     arg |-> Digits(child_status)]
        /\ exit_code = 0

C3_Witness ==
    /\ Exited
    /\ child_status = 2
    /\ type_command = "aliases"
    /\ Len(log) = 2

(***************************************************************************)
(* C4, C5                                                                  *)
(***************************************************************************)
\* process_command went on to bind the tokens: the command resolved and the
\* tokens hold no --help
BindingTried ==
    /\ "process_command" \in Range(trace)
    /\ ~HelpGiven

\* a parameter of the schema without `default` is absent from the tokens
RequiredMissing ==
    \E k \in 1..Len(details.args) :
        /\ ~details.args[k].has_default
        /\ ("--" \o details.args[k].name) \notin Range(TokensGiven)

\* a value supplied for an int or float parameter is no number
ValueRejected ==
    \E k \in 1..Len(details.args) : \E j \in 1..(Len(TokensGiven) - 1) :
        /\ details.args[k].type \in {"int", "float"}
        /\ TokensGiven[j] = "--" \o details.args[k].name
        /\ TokensGiven[j + 1] = "abc"

BindingFails == BindingTried /\ (RequiredMissing \/ ValueRejected)

\* C4: every argument-parse failure is logged in process_command, which
\* returns normally, and the process ends with exit code 0.
C4_ParseFailureHandled ==
    (BindingFails /\ Exited) =>
        /\ exit_code = 0
        /\ \E i \in 1..Len(log) : log[i].at = "process_command"

\* C5: in every run where argument binding fails no subprocess is spawned:
\* neither run_script nor run_alias is reached.
C5_NoSpawnOnBindingFailure ==
    BindingFails => (NoSubprocess /\ ~ExecutorReached /\ command_args = << >>)

C5_Witness ==
    /\ BindingFails
    /\ ValueRejected
    /\ ~RequiredMissing
    /\ Exited
    /\ details.path = "run.py"

(***************************************************************************)
(* C6                                                                      *)
(***************************************************************************)
\* run found the command name in a section
Resolved == type_command # ""

\* C6: when the tokens after a resolved command name hold --help, at any
\* position and whatever else they hold, process_command prints the command
\* help and returns without parsing and without spawning; the exit code is 0.
C6_HelpNeverExecutes ==
    (Resolved /\ HelpGiven) =>
        /\ NoSubprocess
        /\ ~ExecutorReached
        /\ "parse_known_args" \notin Range(trace)
        /\ pc \in {"process_command", "exit"}
        /\ Exited =>
              /\ exit_code = 0
              /\ log = << >>
              /\ Len(out) >= 2
              /\ out[1] = "Command: " \o sys_argv[1]
              /\ "print_help" \in Range(trace)

C6_Witness ==
    /\ Resolved
    /\ Exited
    /\ Len(TokensGiven) = 2
    /\ TokensGiven[1] = "--count"
    /\ TokensGiven[2] = "--help"
    /\ \E k \in 1..Len(details.args) : ~details.args[k].has_default
    /\ Len(out) >= 2

(***************************************************************************)
(* C7                                                                      *)
(***************************************************************************)
RejectedAsEmpty == \E i \in 1..Len(log) : log[i].err = "ValueError: empty"

\* C7: every configuration-load failure is fatal: the process logs the error
\* and ends with exit code 1, and nothing is resolved, listed or spawned in
\* that run; a document is rejected as empty exactly when parsing the regular
\* file config.yml yields no content.
C7_LoadFailureIsFatal ==
    /\ (~Loadable /\ pc # "main") =>
          /\ Exited
          /\ exit_code = 1
          /\ Len(log) = 1
          /\ log[1].at = "main"
          /\ out = << >>
          /\ NoSubprocess
          /\ trace = << "_load_config" >>
          /\ data = NoData
    /\ pc # "main" =>
          (RejectedAsEmpty <=>
              (namespace = "dir" /\ config_path = "file" /\ document.tag = "None"))

C7_Witness ==
    /\ Exited
    /\ RejectedAsEmpty
    /\ CommandGiven
    /\ sys_argv[1] = "--list"

(***************************************************************************)
(* C8                                                                      *)
(***************************************************************************)
\* the error run_script owes for the path of the definition, "" when it owes none
ScriptPathError ==
    CASE details.path = NoPath              -> "ValueError: no path"
      [] details.path = "gone.py"           -> "FileNotFoundError"
      [] details.path = "lib"               -> "ValueError: not a file"
      [] OTHER                              -> ""

\* C8: in run_script a definition without `path`, a path that does not exist
\* in the workspace and a path that is no regular file each fail with their
\* own error before any interpreter is spawned; process_command catches and
\* logs the error and the process ends with exit code 0.
C8_ValidationBeforeSpawn ==
    ("run_script" \in Range(trace) /\ ScriptPathError # "") =>
        /\ NoSubprocess
        /\ child_status = -1
        /\ Exited
        /\ exit_code = 0
        /\ log = << [at |-> "process_command", err |-> ScriptPathError, arg |-> ""] >>

C8_Witness ==
    /\ "run_script" \in Range(trace)
    /\ details.path = "lib"
    /\ Exited
    /\ command_args # << >>

(***************************************************************************)
(* C9                                                                      *)
(***************************************************************************)
RECURSIVE Concat(_)
Concat(pieces) ==
    IF pieces = << >> THEN "" ELSE Head(pieces) \o Concat(Tail(pieces))

BoundNames == { command_args[i].name : i \in 1..Len(command_args) }
BoundValue(name) ==
    (CHOOSE a \in Range(command_args) : a.name = name).value

\* the positions of the template's placeholders that name no bound argument
Unresolved(template) ==
    { i \in 1..Len(template) :
        template[i].kind = "ph" /\ template[i].text \notin BoundNames }

\* the template with each placeholder replaced by str() of its bound value
Substituted(template) ==
    Concat([i \in 1..Len(template) |->
              IF template[i].kind = "lit" THEN template[i].text
              ELSE PyStr(BoundValue(template[i].text))])

\* C9: in run_alias, when every placeholder of the template is bound the
\* string given to the shell is the template with each placeholder replaced
\* by its bound value (`echo {msg}` with msg=hi gives `echo hi`); when one is
\* not bound the error names the first unresolved placeholder in template
\* order and no shell is spawned; a definition without `command` fails
\* without spawning.
C9_AliasFormatting ==
    "run_alias" \in Range(trace) =>
        LET t == details.command
            u == Unresolved(t)
        IN  /\ t = NoCommand =>
                  /\ NoSubprocess
                  /\ log = << [at |-> "process_command",
                               err |-> "ValueError: no command", arg |-> ""] >>
            /\ (t # NoCommand /\ u = {}) =>
                  /\ spawned = << [shell |-> TRUE, cmd |-> << Substituted(t) >>] >>
                  /\ (t = << Lit("echo "), Ph("msg") >> /\ BoundValue("msg") = PyStrValue("hi"))
                        => spawned[1].cmd = << "echo hi" >>
            /\ (t # NoCommand /\ u # {}) =>
                  /\ NoSubprocess
                  /\ log = << [at |-> "process_command",
                               err |-> "ValueError: missing argument",
                               arg |-> t[CHOOSE i \in u : \A j \in u : i <= j].text] >>

C9_Witness ==
    /\ "run_alias" \in Range(trace)
    /\ details.command = << Lit("run "), Ph("count"), Lit(" "), Ph("msg") >>
    /\ spawned = << [shell |-> TRUE, cmd |-> << "run 5 hi" >>] >>
    /\ Exited

(***************************************************************************)
(* C10                                                                     *)
(***************************************************************************)
UnknownCommand ==
    /\ Loadable
    /\ CommandGiven
    /\ sys_argv[1] # "--list"
    /\ sys_argv[1] \notin Keys(document.scripts) \cup Keys(document.aliases)

\* C10: for every configuration that loads, also one whose `scripts` or
\* `aliases` section is absent or has no entries, a first argument that is not
\* --list and is a key of neither section prints the unknown-command message,
\* spawns nothing and ends with exit code 0.
C10_UnknownCommandExitsZero ==
    (UnknownCommand /\ Exited) =>
        /\ exit_code = 0
        /\ out = << "unknown command" >>
        /\ NoSubprocess

=============================================================================
